---- MODULE Spec2Model ----
(***************************************************************************)
(* A model of UploadChunkFile (src/src/index.ts): the chunk planner, the   *)
(* permit-counting scheduler (processInBatches), the retry wrapper         *)
(* (executeWithRetry), the XMLHttpRequest handlers, the progress           *)
(* aggregation and the abort signal.                                       *)
(*                                                                         *)
(* JavaScript runs one macrotask (a timer or an XMLHttpRequest event) and  *)
(* then drains every microtask it queued, so one action is one macrotask   *)
(* together with all the promise reactions it triggers.                    *)
(*                                                                         *)
(* Spec is one uploadFile call on one instance, SpecLive the chunked mode  *)
(* under fair scheduling, SpecConcurrent two uploadFile calls that share   *)
(* an instance.                                                            *)
(***************************************************************************)
EXTENDS Integers, Sequences, FiniteSets, TLC

\* ------------------------------------------------------------- bounds ----
MaxFileSize == 3        \* file.size ranges over 0..MaxFileSize
MaxOption == 2          \* chunkSize, maxRetries, maxParallel options: 0..MaxOption
MaxAttempts == 6        \* totalChunks * (maxRetries + 1) of an explored upload

\* ------------------------------------------------- program constants ----
DefaultChunkSize == 5242880
DefaultRetriesMultipart == 5
DefaultRetriesMultiple == 2
DefaultParallelMultipart == 5
DefaultParallelMultiple == 1

Variants == {"multipart", "multiple"}
UploadTypes == {"multipart", "multiple", "single"}
\* the values an option is given; an option that is not given is undefined.
\* chunkSize is also tried with a negative value, maxParallel only with positive ones.
OptionValues == 0..MaxOption
ChunkSizeValues == (-1)..MaxOption
ParallelValues == 1..MaxOption
OptionNames == {"chunkSize", "maxRetries", "maxParallel"}
FileSizes == 0..MaxFileSize
\* the status of a "load" event; 0 is kept for the "error" event (no status)
Statuses == {199, 200, 299, 300}
\* e.loaded / e.total * 100 of a progress event
Percentages == {50, 100}

NoError == [name |-> "none", message |-> "none", status |-> 0]
UploadAbortedError(msg) == [name |-> "UploadAbortedError", message |-> msg, status |-> 0]
FileUploadError(msg, status) == [name |-> "FileUploadError", message |-> msg, status |-> status]
InvalidTypeError == [name |-> "Error", message |-> "Invalid upload type", status |-> 0]

VARIABLES
    variant,        \* which of the two builds of the class
    options,        \* the numeric options given to the constructor (absent: undefined)
    uploadType,     \* this.options.uploadType
    chunkSize,      \* this.multipartOptions.chunkSize
    maxRetries,     \* this.multipartOptions.maxRetries
    maxParallel,    \* this.multipartOptions.maxParallel
    signal,         \* this.signal.aborted: "idle" | "aborted"
    fileSize,       \* file.size of the upload, -1 before uploadFile
    upload,         \* the promise uploadFile returned
    chunks,         \* the items handed to processInBatches
    tasks,          \* one async task per item
    count,          \* semaphore.count
    single,         \* the one request of the single mode
    uploadProgress, \* multipartUpload's Map chunkIndex -> percentage (-1: no entry)
    lastProgress,   \* the last value given to the caller's onProgressChange
    lateProgress,   \* history: the caller's onProgressChange was invoked after the
                    \* promise uploadFile returned had settled
    first,          \* history: the first value given to onProgressChange, and the
                    \* number of requests sent before it (value.num -1: no call yet)
    handled,        \* whether handleUploadError ran
    abortedAtCall,  \* history: signal.aborted at the moment uploadFile was called
    results,        \* processInBatches' results array (multipart variant)
    finalResult,    \* processInBatches' finalResult (multiple variant)
    onProgressChange, \* this.onProgressChange when uploadFile is called twice
    jobs,           \* the two concurrent uploadFile calls on one instance
    delivered,      \* history: which upload's value was given to which callback
    totalChunk,     \* example backend: $totalChunk of the upload's requests (0: none sent)
    handler,        \* example backend: where the handler of each chunk's request is
    tempDir,        \* example backend: whether $tempDir exists
    chunkFiles,     \* example backend: the chunk files in $tempDir, "open" or "stored"
    finalFiles      \* example backend: the final files created, each with the chunks
                    \* whose complete data it was given

\* the state of two uploadFile calls sharing one instance
concurrent == <<onProgressChange, jobs, delivered>>

\* the instance and the state of one uploadFile call
oneUpload == <<variant, options, uploadType, chunkSize, maxRetries, maxParallel, signal, fileSize,
               upload, chunks, tasks, count, single, uploadProgress, lastProgress,
               lateProgress, first, handled, abortedAtCall, results, finalResult>>

\* the state of the example backend (UploadChunkController)
backend == <<totalChunk, handler, tempDir, chunkFiles, finalFiles>>

vars == <<oneUpload, concurrent, backend>>

config == <<variant, options, uploadType, chunkSize, maxRetries, maxParallel>>

\* ------------------------------------------------------ pure helpers ----
Max(a, b) == IF a > b THEN a ELSE b
Min(a, b) == IF a < b THEN a ELSE b

\* Math.ceil(a / b) for a >= 0 and b # 0
MathCeil(a, b) ==
    IF b > 0 THEN (a + b - 1) \div b
    ELSE 0 - (a \div (0 - b))

\* Array.from({ length: n }): a negative length is an empty array
ArrayLength(n) == Max(n, 0)

\* Blob.slice(start, end) on a blob of `size` bytes: the byte range [from, to)
BlobSlice(size, start, end) ==
    LET relativeStart == IF start < 0 THEN Max(size + start, 0) ELSE Min(start, size)
        relativeEnd == IF end < 0 THEN Max(size + end, 0) ELSE Min(end, size)
        span == Max(relativeEnd - relativeStart, 0)
    IN  [from |-> relativeStart, to |-> relativeStart + span]

\* x || d
OrDefault(x, d) == IF x = 0 THEN d ELSE x

\* options?.name || d
Option(o, name, d) == IF name \in DOMAIN o THEN OrDefault(o[name], d) ELSE d

\* the Options objects the constructor is called with
OptionsGiven ==
    {o \in UNION {[names -> ChunkSizeValues] : names \in SUBSET OptionNames} :
        \A name \in DOMAIN o :
            /\ name = "maxRetries" => o[name] \in OptionValues
            /\ name = "maxParallel" => o[name] \in ParallelValues}

DefaultUploadType(v) == v
DefaultMaxRetries(v) ==
    IF v = "multipart" THEN DefaultRetriesMultipart ELSE DefaultRetriesMultiple
DefaultMaxParallel(v) ==
    IF v = "multipart" THEN DefaultParallelMultipart ELSE DefaultParallelMultiple

calculateMultipartDetails(size, partSize) == ArrayLength(MathCeil(size, partSize))

\* chunks.map(chunk => file.slice((chunkIndex - 1) * chunkSize, chunkIndex * chunkSize))
ChunkSlice(size, partSize, chunkIndex) ==
    BlobSlice(size, (chunkIndex - 1) * partSize, chunkIndex * partSize)

Bytes(r) == r.from..(r.to - 1)

\* ------------------------------------------------------------ promises ----
\* the values a promise of the program resolves with. `item` tells which item
\* of processInBatches a value was produced for (-1: none), `call` which request
\* of that item the response came from.
Undefined == [item |-> -1, call |-> 0, response |-> "undefined"]
Message == [item |-> -1, call |-> 0, response |-> "File uploaded successfully"]
ParsedResponse(i, call) == [item |-> i, call |-> call, response |-> "parsed"]

Idle == [state |-> "idle", error |-> NoError, value |-> Undefined]
Pending == [state |-> "pending", error |-> NoError, value |-> Undefined]
Resolved(v) == [state |-> "resolved", error |-> NoError, value |-> v]
Rejected(e) == [state |-> "rejected", error |-> e, value |-> Undefined]

NoRequest == [st |-> "none", calls |-> 0, reqPct |-> -1, from |-> 0, to |-> 0]
NewTask == [st |-> "waiting", retries |-> 0, calls |-> 0, fails |-> 0,
            err |-> NoError, reqPct |-> -1]

Indices == DOMAIN tasks
Ended(t) == t.st \in {"done", "failed", "aborted"}
Threw(t) == t.st \in {"failed", "aborted"}
InFlight == {i \in Indices : tasks[i].st = "inflight"}
PermitHolders == {i \in Indices : tasks[i].st \in {"inflight", "delay", "stuck"}}
TransportCalls == Cardinality(InFlight) + (IF single.st = "inflight" THEN 1 ELSE 0)

\* the two uploadFile calls made on one instance, and a call not yet made
Jobs == {1, 2}
NoJob == [st |-> "idle", uploadProgress |-> <<>>, ended |-> {}]

\* ------------------------------------------------------------- config ----
\* The constructor: defaults through `??` (upload type) and `||` (the numbers).
Init ==
    /\ variant \in Variants
    /\ uploadType \in UploadTypes
    /\ options \in OptionsGiven
    /\ chunkSize = Option(options, "chunkSize", DefaultChunkSize)
    /\ maxRetries = Option(options, "maxRetries", DefaultMaxRetries(variant))
    /\ maxParallel = Option(options, "maxParallel", DefaultMaxParallel(variant))
    /\ signal = "idle"
    /\ fileSize = -1
    /\ upload = Idle
    /\ chunks = <<>>
    /\ tasks = <<>>
    /\ count = 0
    /\ single = NoRequest
    /\ uploadProgress = <<>>
    /\ lastProgress = [num |-> -1, den |-> 1]
    /\ lateProgress = FALSE
    /\ first = [value |-> [num |-> -1, den |-> 1], calls |-> 0]
    /\ handled = FALSE
    /\ abortedAtCall = FALSE
    /\ results = <<>>
    /\ finalResult = Undefined
    /\ onProgressChange = 0
    /\ jobs = [j \in Jobs |-> NoJob]
    /\ delivered = {}
    /\ totalChunk = 0
    /\ handler = <<>>
    /\ tempDir = FALSE
    /\ chunkFiles = <<>>
    /\ finalFiles = <<>>

\* ------------------------------------------------------ the transport ----
\* mutant: one attempt too many (retries >= 0)
executeWithRetryExtraAttempt(t, e) ==
    IF e.name = "UploadAbortedError"
    THEN [t EXCEPT !.st = "aborted", !.err = e]
    ELSE IF t.retries >= 0
         THEN [t EXCEPT !.st = "delay", !.fails = @ + 1]
         ELSE [t EXCEPT !.st = "failed", !.err = e, !.fails = @ + 1]

\* mutant: gives up one attempt early (retries > 1)
executeWithRetryGivesUpEarly(t, e) ==
    IF e.name = "UploadAbortedError"
    THEN [t EXCEPT !.st = "aborted", !.err = e]
    ELSE IF t.retries > 1
         THEN [t EXCEPT !.st = "delay", !.fails = @ + 1]
         ELSE [t EXCEPT !.st = "failed", !.err = e, !.fails = @ + 1]

\* mutant: the abort error is retried like any other error
executeWithRetryRetriesAbort(t, e) ==
    IF t.retries > 0
    THEN [t EXCEPT !.st = "delay", !.fails = @ + 1]
    ELSE [t EXCEPT !.st = "failed", !.err = e, !.fails = @ + 1]

\* executeWithRetry's catch block for an error e of the attempt of task t
executeWithRetry(t, e) ==
    IF e.name = "UploadAbortedError"
    THEN [t EXCEPT !.st = "aborted", !.err = e]
    ELSE IF t.retries > 0
         THEN [t EXCEPT !.st = "delay", !.fails = @ + 1]
         ELSE [t EXCEPT !.st = "failed", !.err = e, !.fails = @ + 1]

\* mutant: no check of signal.aborted before the request is sent
singleFileUploadIgnoresSignal(t) ==
    [t EXCEPT !.st = "inflight", !.calls = @ + 1, !.reqPct = -1]

\* singleFileUpload called for a chunk by executeWithRetry's func(): the promise
\* executor either rejects at once (the signal is aborted), and the rejection is
\* caught by executeWithRetry, or opens and sends a new XMLHttpRequest.
singleFileUpload(t) ==
    IF signal = "aborted"
    THEN executeWithRetry(t, UploadAbortedError("File upload aborted"))
    ELSE [t EXCEPT !.st = "inflight", !.calls = @ + 1, !.reqPct = -1]

\* the "load" listener of setupRequestHandlers
LoadListener(t, status, parses) ==
    IF status >= 200 /\ status < 300
    THEN IF parses THEN [t EXCEPT !.st = "done"] ELSE [t EXCEPT !.st = "stuck"]
    ELSE executeWithRetry(t, FileUploadError("HTTP", status))

\* what processFn(item i) resolved with when task t returned: uploadPart gives
\* back the response of singleFileUpload in the multiple variant and nothing in
\* the multipart variant
processFn(i, t) ==
    IF variant = "multipart" THEN [Undefined EXCEPT !.item = i]
    ELSE ParsedResponse(i, t.calls)

\* the tasks whose executeWithRetry returned in this step
Returned(old, new) == {i \in DOMAIN new : new[i].st = "done" /\ old[i].st # "done"}

\* mutant: results.push(result), the order in which the chunks complete
StoreResultsPushed(res, old, new) ==
    LET filled == Cardinality({j \in DOMAIN res : res[j] # Undefined})
    IN  [k \in DOMAIN res |->
            IF k = filled /\ Returned(old, new) # {}
            THEN processFn(CHOOSE i \in Returned(old, new) : TRUE,
                           new[CHOOSE i \in Returned(old, new) : TRUE])
            ELSE res[k]]

\* results[i] = result (multipart variant; the multiple variant has no array)
StoreResults(res, old, new) ==
    [i \in DOMAIN res |-> IF i \in Returned(old, new) THEN processFn(i, new[i]) ELSE res[i]]

\* mutant: finalResult = result in every task, the chunk completing last wins
StoreFinalResultOfLastCompleted(final, old, new) ==
    IF variant = "multiple" /\ Returned(old, new) # {}
    THEN LET i == CHOOSE k \in Returned(old, new) : TRUE IN processFn(i, new[i])
    ELSE final

\* if (i === items.length - 1) finalResult = result (multiple variant)
StoreFinalResult(final, old, new) ==
    LET last == Cardinality(DOMAIN new) - 1
    IN  IF variant = "multiple" /\ last \in Returned(old, new)
        THEN processFn(last, new[last])
        ELSE final

\* what multipartUpload returns once processInBatches resolved
UploadValue(final) == IF variant = "multipart" THEN Message ELSE final

\* mutant: Promise.any(tasks), settled by the first task that returns
PromiseAllAny(cur, old, new, final) ==
    LET thrown == {i \in DOMAIN new : Threw(new[i]) /\ ~Threw(old[i])}
    IN  IF cur.state # "pending" THEN cur
        ELSE IF \E i \in DOMAIN new : new[i].st = "done"
             THEN Resolved(UploadValue(final))
             ELSE IF thrown # {} /\ \A i \in DOMAIN new : Threw(new[i])
                  THEN Rejected(new[CHOOSE i \in thrown : TRUE].err)
                  ELSE cur

\* Promise.all(tasks) and the promise chain up to the caller: rejects with the
\* first task that throws, resolves once every task has returned.
PromiseAll(cur, old, new, final) ==
    LET thrown == {i \in DOMAIN new : Threw(new[i]) /\ ~Threw(old[i])}
    IN  IF cur.state # "pending" THEN cur
        ELSE IF thrown # {}
             THEN Rejected(new[CHOOSE i \in thrown : \A j \in thrown : i <= j].err)
             ELSE IF \A i \in DOMAIN new : new[i].st = "done"
                  THEN Resolved(UploadValue(final))
                  ELSE cur

\* mutant: semaphore.signal() after the try block, not in a finally block
ReleasedOnReturn(old, new) ==
    Cardinality({i \in DOMAIN new : new[i].st = "done" /\ old[i].st # "done"})

\* semaphore.signal() in the finally block of every task that ended in this step
Released(old, new) ==
    Cardinality({i \in DOMAIN new : Ended(new[i]) /\ ~Ended(old[i])})

Step(new) ==
    /\ tasks' = new
    /\ results' = StoreResults(results, tasks, new)
    /\ finalResult' = StoreFinalResult(finalResult, tasks, new)
    /\ upload' = PromiseAll(upload, tasks, new, finalResult')
    /\ count' = count + Released(tasks, new)

RECURSIVE SumUpTo(_, _)
SumUpTo(f, n) == IF n < 0 THEN 0 ELSE (IF f[n] < 0 THEN 0 ELSE f[n]) + SumUpTo(f, n - 1)

\* mutant: Math.max instead of the sum
totalProgressMax(m) ==
    IF \E i \in DOMAIN m : m[i] >= 100 THEN 100
    ELSE IF \E i \in DOMAIN m : m[i] >= 50 THEN 50 ELSE 0

\* Array.from(uploadProgress.values()).reduce((sum, value) => sum + value, 0)
totalProgress(m) == SumUpTo(m, Cardinality(DOMAIN m) - 1)

RECURSIVE SumCallsUpTo(_, _)
SumCallsUpTo(f, n) == IF n < 0 THEN 0 ELSE f[n].calls + SumCallsUpTo(f, n - 1)
SumCalls(f) == SumCallsUpTo(f, Cardinality(DOMAIN f) - 1)

\* request.send(formData): the requests sent so far
TotalCalls == SumCalls(tasks) + single.calls

\* this.onProgressChange?.(v)
Report(v) ==
    /\ lastProgress' = v
    /\ lateProgress' = (lateProgress \/ upload.state \in {"resolved", "rejected"})
    /\ first' = IF first.value.num < 0 THEN [value |-> v, calls |-> TotalCalls] ELSE first

\* mutant: uploadFile does not report the initial 0
InitialProgressMissing == UNCHANGED <<lastProgress, lateProgress, first>>

\* uploadFile: this.onProgressChange?.(0), before the mode is looked at
InitialProgress == Report([num |-> 0, den |-> 1])

\* mutant: divides by totalChunks - 1
overallProgressOffByOne(m, totalChunks) ==
    [num |-> totalProgress(m), den |-> Max(totalChunks - 1, 1)]

\* mutant: divides by the number of entries of the Map
overallProgressPerEntry(m, totalChunks) ==
    [num |-> totalProgress(m), den |-> Cardinality({i \in DOMAIN m : m[i] >= 0})]

\* uploadPart's onProgressChange: totalProgress / totalChunks, as the fraction num / den
overallProgress(m, totalChunks) == [num |-> totalProgress(m), den |-> totalChunks]

\* --------------------------------------------------------- operations ----
\* multipartUpload: plan the chunks, then processInBatches up to the first await
\* of every task: the first maxParallel tasks take a permit synchronously and
\* make their first attempt, the others start polling the semaphore.
multipartUpload(size) ==
    LET totalChunks == calculateMultipartDetails(size, chunkSize)
        idx == 0..(totalChunks - 1)
        permitted == {i \in idx : i < maxParallel}
        new == [i \in idx |->
                   IF i \in permitted
                   THEN singleFileUpload([NewTask EXCEPT !.retries = maxRetries])
                   ELSE [NewTask EXCEPT !.retries = maxRetries]]
        old == [i \in idx |-> NewTask]
    IN  /\ chunks' = [i \in idx |-> ChunkSlice(size, chunkSize, i)]
        /\ uploadProgress' = [i \in idx |-> -1]
        /\ tasks' = new
        /\ count' = maxParallel - Cardinality(permitted) + Released(old, new)
        /\ results' = IF variant = "multipart" THEN [i \in idx |-> Undefined] ELSE <<>>
        /\ finalResult' = Undefined
        /\ upload' = PromiseAll(Pending, old, new, Undefined)
        /\ InitialProgress
        /\ UNCHANGED <<single, handled>>

\* mutant: the single mode goes through the chunk planner and the scheduler
singleUploadChunked == multipartUpload(fileSize')

\* uploadFile in the single mode: one request for the whole file, no
\* onProgressChange handed to singleFileUpload
singleUpload ==
    /\ IF signal = "aborted"
       THEN /\ upload' = Rejected(UploadAbortedError("File upload aborted"))
            /\ UNCHANGED single
       ELSE /\ upload' = Pending
            /\ single' = [st |-> "inflight", calls |-> single.calls + 1, reqPct |-> -1,
                           from |-> 0, to |-> fileSize']
    /\ InitialProgress
    /\ UNCHANGED <<chunks, tasks, count, uploadProgress, handled, results, finalResult>>

\* mutant: the catch block does not rethrow
handleUploadErrorSwallows(e) ==
    /\ handled' = TRUE
    /\ upload' = Resolved(Undefined)
    /\ InitialProgress
    /\ UNCHANGED <<chunks, tasks, count, single, uploadProgress, results, finalResult>>

\* uploadFile's initial onProgressChange(0) followed by handleUploadError for the
\* error thrown inside the try block: an "AbortError" is rethrown as
\* UploadAbortedError, any other error after a second onProgressChange(0)
handleUploadError(e) ==
    /\ handled' = TRUE
    /\ IF e.name = "AbortError"
       THEN /\ upload' = Rejected(UploadAbortedError("Upload aborted by user"))
            /\ InitialProgress
       ELSE /\ upload' = Rejected(e)
            /\ lastProgress' = [num |-> 0, den |-> 1]
            /\ lateProgress' = lateProgress
            /\ first' = IF first.value.num < 0
                        THEN [value |-> [num |-> 0, den |-> 1], calls |-> TotalCalls]
                        ELSE first
    /\ UNCHANGED <<chunks, tasks, count, single, uploadProgress, results, finalResult>>

uploadFile ==
    /\ upload.state = "idle"
    /\ \E size \in FileSizes :
        /\ uploadType = variant =>
              calculateMultipartDetails(size, chunkSize) * (maxRetries + 1) <= MaxAttempts
        /\ fileSize' = size
        /\ abortedAtCall' = (signal = "aborted")
        /\ IF uploadType = variant THEN multipartUpload(size)
           ELSE IF uploadType = "single" THEN singleUpload
           ELSE handleUploadError(InvalidTypeError)
    /\ UNCHANGED <<concurrent, backend, config, signal>>

\* mutant: the loop of semaphore.wait() tests count < 0
PermitFreeOffByOne == count >= 0

\* the exit condition of `while (this.count <= 0)` in semaphore.wait()
PermitFree == count > 0

\* semaphore.wait() of a polling task finds count > 0 after a delay(500): it
\* takes the permit and makes its first attempt
SemaphoreWait(i) ==
    /\ tasks[i].st = "waiting"
    /\ PermitFree
    /\ LET new == [tasks EXCEPT ![i] = singleFileUpload(@)]
       IN  /\ tasks' = new
           /\ upload' = PromiseAll(upload, tasks, new, finalResult)
           /\ count' = count - 1 + Released(tasks, new)
    /\ UNCHANGED <<concurrent, backend, results, finalResult, config, signal, fileSize, chunks, single, uploadProgress,
                   lastProgress, lateProgress, first, handled, abortedAtCall>>

\* whether JSON.parse(request.responseText) returns: only a 2xx load parses the body
Parses(status) == IF status >= 200 /\ status < 300 THEN BOOLEAN ELSE {TRUE}

\* the "load" event of the request of chunk i
Load(i) ==
    /\ tasks[i].st = "inflight"
    /\ \E status \in Statuses : \E parses \in Parses(status) :
          Step([tasks EXCEPT ![i] = LoadListener(@, status, parses)])
    /\ UNCHANGED <<concurrent, backend, config, signal, fileSize, chunks, single, uploadProgress,
                   lastProgress, lateProgress, first, handled, abortedAtCall>>

\* the "error" event of the request of chunk i
ErrorEvent(i) ==
    /\ tasks[i].st = "inflight"
    /\ Step([tasks EXCEPT ![i] = executeWithRetry(@, FileUploadError("Upload failed", 0))])
    /\ UNCHANGED <<concurrent, backend, config, signal, fileSize, chunks, single, uploadProgress,
                   lastProgress, lateProgress, first, handled, abortedAtCall>>

\* delay(retryDelay) of task i is over: executeWithRetry(func, retries - 1)
RetryDelay(i) ==
    /\ tasks[i].st = "delay"
    /\ Step([tasks EXCEPT ![i] = singleFileUpload([@ EXCEPT !.retries = @ - 1])])
    /\ UNCHANGED <<concurrent, backend, config, signal, fileSize, chunks, single, uploadProgress,
                   lastProgress, lateProgress, first, handled, abortedAtCall>>

\* a "progress" event of the upload of chunk i: uploadPart's onProgressChange
Progress(i) ==
    /\ tasks[i].st = "inflight"
    /\ \E lengthComputable \in BOOLEAN :
          IF lengthComputable
          THEN \E pct \in Percentages :
                  /\ pct > tasks[i].reqPct
                  /\ tasks' = [tasks EXCEPT ![i].reqPct = pct]
                  /\ uploadProgress' = [uploadProgress EXCEPT ![i] = pct]
                  /\ Report(overallProgress(uploadProgress', Cardinality(DOMAIN chunks)))
          ELSE UNCHANGED <<tasks, uploadProgress, lastProgress, lateProgress, first>>
    /\ UNCHANGED <<concurrent, backend, results, finalResult, config, signal, fileSize, upload, chunks, count, single, handled, abortedAtCall>>

\* the events of the request of the single mode
SingleLoad ==
    /\ single.st = "inflight"
    /\ single' = [single EXCEPT !.st = "ended"]
    /\ \E status \in Statuses : \E parses \in Parses(status) :
          upload' = IF status >= 200 /\ status < 300
                    THEN IF parses THEN Resolved(ParsedResponse(-1, single.calls)) ELSE upload
                    ELSE Rejected(FileUploadError("HTTP", status))
    /\ UNCHANGED <<concurrent, backend, results, finalResult, config, signal, fileSize, chunks, tasks, count, uploadProgress,
                   lastProgress, lateProgress, first, handled, abortedAtCall>>

SingleError ==
    /\ single.st = "inflight"
    /\ single' = [single EXCEPT !.st = "ended"]
    /\ upload' = Rejected(FileUploadError("Upload failed", 0))
    /\ UNCHANGED <<concurrent, backend, results, finalResult, config, signal, fileSize, chunks, tasks, count, uploadProgress,
                   lastProgress, lateProgress, first, handled, abortedAtCall>>

\* a "progress" event in the single mode: onProgressChange is undefined there
SingleProgress ==
    /\ single.st = "inflight"
    /\ \E pct \in Percentages :
        /\ pct > single.reqPct
        /\ single' = [single EXCEPT !.reqPct = pct]
    /\ UNCHANGED <<concurrent, backend, results, finalResult, config, signal, fileSize, upload, chunks, tasks, count,
                   uploadProgress, lastProgress, lateProgress, first, handled, abortedAtCall>>

\* mutant: only the request sent first still listens to the signal
AbortOneRequest ==
    /\ signal = "idle"
    /\ signal' = "aborted"
    /\ IF uploadType = variant
       THEN /\ Step([i \in Indices |->
                       IF tasks[i].st = "inflight" /\ \A j \in InFlight : i <= j
                       THEN executeWithRetry(tasks[i], UploadAbortedError("Upload aborted"))
                       ELSE tasks[i]])
            /\ UNCHANGED single
       ELSE /\ IF single.st = "inflight"
               THEN /\ single' = [single EXCEPT !.st = "ended"]
                    /\ upload' = Rejected(UploadAbortedError("Upload aborted"))
               ELSE UNCHANGED <<single, upload>>
            /\ UNCHANGED <<tasks, count, results, finalResult>>
    /\ UNCHANGED <<concurrent, backend, config, fileSize, chunks, uploadProgress, lastProgress,
                   lateProgress, first, handled, abortedAtCall>>

\* the caller's AbortController fires: every request with a listener on the
\* signal is aborted, and its "abort" listener rejects with UploadAbortedError
Abort ==
    /\ signal = "idle"
    /\ signal' = "aborted"
    /\ IF uploadType = variant
       THEN /\ Step([i \in Indices |->
                       IF tasks[i].st = "inflight"
                       THEN executeWithRetry(tasks[i], UploadAbortedError("Upload aborted"))
                       ELSE tasks[i]])
            /\ UNCHANGED single
       ELSE /\ IF single.st = "inflight"
               THEN /\ single' = [single EXCEPT !.st = "ended"]
                    /\ upload' = Rejected(UploadAbortedError("Upload aborted"))
               ELSE UNCHANGED <<single, upload>>
            /\ UNCHANGED <<tasks, count, results, finalResult>>
    /\ UNCHANGED <<concurrent, backend, config, fileSize, chunks, uploadProgress, lastProgress,
                   lateProgress, first, handled, abortedAtCall>>

Next ==
    \/ uploadFile
    \/ Abort
    \/ SingleLoad
    \/ SingleError
    \/ SingleProgress
    \/ \E i \in Indices : SemaphoreWait(i)
    \/ \E i \in Indices : Load(i)
    \/ \E i \in Indices : ErrorEvent(i)
    \/ \E i \in Indices : RetryDelay(i)
    \/ \E i \in Indices : Progress(i)

Spec == Init /\ [][Next]_vars

\* ============================================================== claims ====
Chunked == uploadType = variant /\ upload.state # "idle"
Planned == DOMAIN chunks

\* C1: for every file size S > 0 and chunk size C > 0 a chunked upload plans
\* ceil(S / C) chunks, and the byte ranges of the chunks handed to the
\* transport are pairwise disjoint and cover exactly [0, S).
C1_ChunksPartitionFile ==
    (Chunked /\ fileSize > 0 /\ chunkSize > 0 /\ \A i \in Indices : tasks[i].calls > 0) =>
        /\ Cardinality(Planned) = MathCeil(fileSize, chunkSize)
        /\ \A i, j \in Planned : i # j => Bytes(chunks[i]) \cap Bytes(chunks[j]) = {}
        /\ UNION {Bytes(chunks[i]) : i \in Planned} = 0..(fileSize - 1)

\* C2: in every reachable state of a chunked upload the number of transport
\* calls started and not yet ended is at most maxParallel.
C2_InFlightAtMostMaxParallel ==
    Chunked => Cardinality(InFlight) <= maxParallel

\* C2 witness: the cap is reached while another chunk waits for a permit and a
\* chunk has already been retried.
C2_Witness ==
    /\ Chunked
    /\ maxParallel = 2
    /\ Cardinality(InFlight) = maxParallel
    /\ \E i \in Indices : tasks[i].st = "waiting"
    /\ \E i \in Indices : tasks[i].fails > 0

\* C3: a chunk whose transport call fails with a non-abort error on every
\* attempt is invoked exactly maxRetries + 1 times, after which the upload is
\* rejected with a FileUploadError: the error of that chunk's last attempt when
\* it is the only chunk that failed.
C3_ExhaustedAfterMaxRetriesPlusOne ==
    \A i \in Indices :
        tasks[i].st = "failed" =>
            /\ tasks[i].calls = maxRetries + 1
            /\ tasks[i].err.name = "FileUploadError"
            /\ upload.state = "rejected"
            /\ upload.error.name = "FileUploadError"
            /\ upload.error \in {tasks[j].err : j \in {k \in Indices : tasks[k].st = "failed"}}

\* C3 witness: a chunk failed after all its attempts, with an HTTP status as the
\* last error, and the upload is rejected with that error.
C3_Witness ==
    \E i \in Indices :
        /\ tasks[i].st = "failed"
        /\ maxRetries >= 2
        /\ tasks[i].err = FileUploadError("HTTP", 300)
        /\ upload = Rejected(tasks[i].err)

\* C4: a chunk that fails k <= maxRetries times with a non-abort error is not
\* given up; when it then succeeds it ends as succeeded after exactly k + 1
\* transport calls, and once every chunk has succeeded the upload is resolved.
C4_SucceedsAfterKFailures ==
    /\ \A i \in Indices :
          /\ tasks[i].fails <= maxRetries => tasks[i].st # "failed"
          /\ tasks[i].st = "done" => tasks[i].calls = tasks[i].fails + 1
    /\ (Indices # {} /\ \A i \in Indices : tasks[i].st = "done") => upload.state = "resolved"

\* C4 witness: two chunks succeeded, one of them after maxRetries failures, and
\* the upload is resolved.
C4_Witness ==
    /\ Cardinality(Indices) >= 2
    /\ \A i \in Indices : tasks[i].st = "done"
    /\ \E i \in Indices : tasks[i].fails = maxRetries /\ tasks[i].calls = maxRetries + 1
    /\ upload.state = "resolved"

\* C5: if the signal is already aborted when uploadFile is called, then for
\* every file size (0 included) and both modes the upload is rejected with
\* UploadAbortedError and no transport call is issued.
C5_AbortedBeforeStart ==
    (abortedAtCall /\ uploadType \in {variant, "single"}) =>
        /\ upload.state = "rejected"
        /\ upload.error.name = "UploadAbortedError"
        /\ TotalCalls = 0

\* C6: once the signal has fired, no transport call is started: not for a chunk
\* waiting for a permit and not for a chunk in its retry delay.
C6_NoCallAfterAbort ==
    [][signal = "aborted" => TotalCalls' = TotalCalls]_vars

\* C6 witness: after the signal fired, a chunk that was waiting for a permit and
\* a chunk that was in its retry delay both ended without a new transport call.
C6_Witness ==
    /\ signal = "aborted"
    /\ ~abortedAtCall
    /\ \E i \in Indices :
          /\ tasks[i].st = "aborted" /\ tasks[i].calls = 0
    /\ \E i \in Indices :
          /\ tasks[i].st = "aborted" /\ tasks[i].fails > 0
          /\ tasks[i].calls = tasks[i].fails
          /\ tasks[i].err = UploadAbortedError("File upload aborted")

\* C7: whenever some chunk of a chunked upload ended as aborted, the outcome
\* given to the caller is the abort error, never a success or a transfer error.
C7_AbortWins ==
    (\E i \in Indices : tasks[i].st = "aborted") =>
        /\ upload.state = "rejected"
        /\ upload.error.name = "UploadAbortedError"

\* C8: when a chunk's transport call ends with the abort error, the task ends
\* at once: no retry delay, no further attempt, whatever budget remains, and an
\* aborted task never changes again.
C8_AbortBypassesRetry ==
    [][\A i \in Indices :
          /\ (tasks[i].st = "inflight" /\ signal = "idle" /\ signal' = "aborted") =>
                /\ tasks'[i].st = "aborted"
                /\ tasks'[i].err.name = "UploadAbortedError"
                /\ tasks'[i].calls = tasks[i].calls
          /\ tasks[i].st = "aborted" => tasks'[i] = tasks[i]]_vars

\* C8 witness: a chunk was aborted in flight with retry budget left.
C8_Witness ==
    \E i \in Indices :
        /\ tasks[i].st = "aborted"
        /\ tasks[i].err = UploadAbortedError("Upload aborted")
        /\ tasks[i].retries > 0
        /\ tasks[i].fails > 0

\* C9: when a chunk fails for good, the upload is rejected only after every
\* dispatched chunk has settled: once the upload is rejected with the transfer
\* error no transport call is in flight.
C9_FailTogether ==
    (upload.state = "rejected" /\ upload.error.name = "FileUploadError") =>
        TransportCalls = 0

\* C10: whenever an upload ends in a failure caused by the transport, the last
\* progress value the caller has seen when the promise is rejected is 0.
C10_ProgressResetOnFailure ==
    (upload.state = "rejected" /\ upload.error.name = "FileUploadError") =>
        lastProgress.num = 0

RECURSIVE SumOver(_, _)
SumOver(S, f) ==
    IF S = {} THEN 0
    ELSE LET i == CHOOSE x \in S : TRUE
         IN  (IF f[i] < 0 THEN 0 ELSE f[i]) + SumOver(S \ {i}, f)

Zero == [num |-> 0, den |-> 1]

\* C11: the first invocation of the progress callback carries 0 and happens
\* before any transport call is started.
C11_FirstProgressIsZeroBeforeAnyCall ==
    /\ upload.state # "idle" => (first.value = Zero /\ first.calls = 0)
    /\ TotalCalls > 0 => first.value.num >= 0

\* C11 witness: requests were sent and later progress values reported, after
\* the first report of 0.
C11_Witness ==
    /\ TotalCalls > 1
    /\ lastProgress.num > 0
    /\ first.value = Zero

\* C12: in chunked mode the value given to the caller after a chunk progress
\* event equals (the sum over all planned chunks of the chunk's last reported
\* percentage, 0 for chunks that have not reported) divided by totalChunks.
C12_OverallIsSumOverTotalChunks ==
    [][(Chunked /\ uploadProgress' # uploadProgress) =>
          /\ lastProgress'.den > 0
          /\ lastProgress'.num * MathCeil(fileSize, chunkSize)
                = SumOver(Planned, uploadProgress') * lastProgress'.den]_vars

\* C12 witness: three chunks, one of which has not reported yet; the caller was
\* given (100 + 50 + 0) / 3.
C12_Witness ==
    /\ Cardinality(Planned) = 3
    /\ \E i \in Planned : uploadProgress[i] = -1
    /\ lastProgress = [num |-> 150, den |-> 3]

\* C13: every value given to the caller's progress callback lies in [0, 100].
C13_ProgressInRange ==
    upload.state # "idle" =>
        /\ lastProgress.den > 0
        /\ 0 <= lastProgress.num
        /\ lastProgress.num <= 100 * lastProgress.den

\* C13 witness: the caller was given 100 in an upload of several chunks, one of
\* which was retried.
C13_Witness ==
    /\ Cardinality(Planned) >= 2
    /\ lastProgress.num = 100 * lastProgress.den
    /\ \E i \in Indices : tasks[i].fails > 0

C15_MonotoneWithoutRetry ==
    [][(Chunked /\ \A i \in DOMAIN tasks' : tasks'[i].calls <= 1) =>
          lastProgress'.num * lastProgress.den >= lastProgress.num * lastProgress'.den]_vars

\* C15 witness: two chunks in flight at once, neither retried, at different
\* percentages.
C15_Witness ==
    /\ Cardinality(InFlight) >= 2
    /\ \A i \in Indices : tasks[i].calls <= 1
    /\ \E i, j \in InFlight : uploadProgress[i] = 50 /\ uploadProgress[j] = 100
    /\ lastProgress.num = 150

\* C16: in single mode an upload issues exactly one transport call covering the
\* whole file, plans no chunks and never retries: when the call failed the
\* upload is rejected after exactly one call.
C16_SingleModeOneCall ==
    (uploadType = "single" /\ upload.state # "idle") =>
        /\ Planned = {} /\ Indices = {}
        /\ single.calls = (IF abortedAtCall THEN 0 ELSE 1)
        /\ ~abortedAtCall => (single.from = 0 /\ single.to = fileSize)
        /\ (upload.state = "rejected" /\ upload.error.name = "FileUploadError") =>
              (single.st = "ended" /\ single.calls = 1)
        /\ (single.st = "ended" /\ upload.state = "rejected") =>
              upload.error.name \in {"FileUploadError", "UploadAbortedError"}

\* C16 witness: the one request of a single upload failed with an HTTP status
\* and the upload is rejected with it.
C16_Witness ==
    /\ uploadType = "single"
    /\ fileSize > 0
    /\ single.st = "ended" /\ single.calls = 1
    /\ upload = Rejected(FileUploadError("HTTP", 199))

\* C17: in single mode every progress report of the transport call is given
\* unchanged to the caller's progress callback.
C17_SingleProgressForwarded ==
    (uploadType = "single" /\ single.reqPct >= 0) =>
        lastProgress = [num |-> single.reqPct, den |-> 1]

\* C18: an upload configured with a mode that is neither the chunked mode nor
\* "single" is rejected with an error before any transport call is issued.
C18_InvalidModeRejected ==
    (uploadType \notin {variant, "single"} /\ upload.state # "idle") =>
        /\ upload = Rejected(InvalidTypeError)
        /\ TotalCalls = 0
        /\ Indices = {} /\ single.st = "none"

\* C18 witness: uploadFile was called with an invalid mode and handleUploadError ran.
C18_Witness ==
    /\ uploadType \notin {variant, "single"}
    /\ handled
    /\ upload.state = "rejected"
    /\ fileSize > 0

\* C19: a chunked upload configured with a chunk size of 0 or less is rejected
\* with an error before any transport call is issued; it never succeeds.
C19_NonPositiveChunkSizeRejected ==
    (Chunked /\ "chunkSize" \in DOMAIN options /\ options["chunkSize"] <= 0) =>
        /\ upload.state = "rejected"
        /\ TotalCalls = 0

\* C20: a chunked upload of a zero-byte file plans exactly one chunk of length
\* 0 and, absent failures, issues exactly one transport call for it.
C20_ZeroByteFileOneChunk ==
    (Chunked /\ fileSize = 0 /\ chunkSize > 0) =>
        /\ Cardinality(Planned) = 1
        /\ chunks[0].to - chunks[0].from = 0
        /\ upload.state = "resolved" => TotalCalls = 1

\* C21: a configured maxRetries of 0 is a retry budget of zero: a chunk whose
\* first transport call fails with a non-abort error is not retried, the
\* transport is invoked exactly once for it and the chunk ends as failed.
C21_ZeroRetriesHonoured ==
    (Chunked /\ "maxRetries" \in DOMAIN options /\ options["maxRetries"] = 0) =>
        \A i \in Indices :
            /\ tasks[i].calls <= 1
            /\ tasks[i].fails > 0 => tasks[i].st = "failed"

\* C22: the results processInBatches keeps are indexed by input position: the
\* result stored at position i is the result of the worker run on item i,
\* whatever order the chunks complete in (the multiple variant keeps no array,
\* only the result of the item at the last position).
C22_ResultsByInputPosition ==
    /\ \A i \in DOMAIN results :
          results[i] = IF tasks[i].st = "done" THEN processFn(i, tasks[i]) ELSE Undefined
    /\ finalResult # Undefined =>
          /\ variant = "multiple"
          /\ finalResult.item = Cardinality(Indices) - 1
          /\ finalResult = processFn(finalResult.item, tasks[finalResult.item])

\* C22 witness: of three chunks in flight together the last one completed first
\* and the first one is still in flight; its result is stored at its own position.
C22_Witness ==
    /\ Cardinality(DOMAIN results) = 3
    /\ results[2].item = 2
    /\ results[1] = Undefined /\ tasks[1].st # "done"
    /\ results[0] = Undefined /\ tasks[0].st = "inflight"

\* C23: with no maxParallel option given a chunked upload is sequential: at
\* most one transport call is in flight at any time.
C23_DefaultIsSequential ==
    (Chunked /\ "maxParallel" \notin DOMAIN options) => Cardinality(InFlight) <= 1

\* C24: a chunked upload resolves only if every planned chunk has ended as
\* succeeded, its last transport call being the one that succeeded; it never
\* resolves while a chunk is waiting, in flight, retrying, failed or aborted.
C24_ResolvesOnlyWhenAllSucceeded ==
    (Chunked /\ upload.state = "resolved") =>
        /\ Indices = Planned
        /\ \A i \in Planned :
              /\ tasks[i].st = "done"
              /\ tasks[i].calls = tasks[i].fails + 1

\* C24 witness: an upload of three chunks resolved after one chunk had been
\* retried and another had waited for a permit.
C24_Witness ==
    /\ Chunked
    /\ upload.state = "resolved"
    /\ Cardinality(Planned) = 3
    /\ maxParallel < 3
    /\ \E i \in Planned : tasks[i].fails = 1

\* C25: permit accounting: in every state of a chunked upload
\* 0 <= count <= maxParallel and count plus the number of tasks holding a permit
\* equals maxParallel; a task gives its permit back exactly once however it ends,
\* so once every task has ended count equals maxParallel again.
C25_PermitAccounting ==
    Chunked =>
        /\ 0 <= count /\ count <= maxParallel
        /\ count + Cardinality(PermitHolders) = maxParallel
        /\ (\A i \in Indices : Ended(tasks[i])) => count = maxParallel

\* C25 witness: every task has ended, one as succeeded, one as failed and one as
\* aborted, fewer permits than tasks, and all permits are back.
C25_Witness ==
    /\ Chunked
    /\ maxParallel = 2
    /\ count = maxParallel
    /\ \A i \in Indices : Ended(tasks[i])
    /\ \E i, j, k \in Indices :
          tasks[i].st = "done" /\ tasks[j].st = "failed" /\ tasks[k].st = "aborted"

\* C27: when the signal fires during an upload, every transport call in flight
\* at that moment is aborted and its attempt ends with UploadAbortedError; none
\* of them goes on to end as succeeded or as a transfer error.
C27_InFlightEndWithAbortError ==
    [][/\ (signal = "idle" /\ signal' = "aborted") =>
             /\ \A i \in InFlight :
                   /\ tasks'[i].st = "aborted"
                   /\ tasks'[i].err = UploadAbortedError("Upload aborted")
             /\ single.st = "inflight" =>
                   /\ single'.st = "ended"
                   /\ upload' = Rejected(UploadAbortedError("Upload aborted"))
             /\ TransportCalls' = 0
       /\ \A i \in Indices : tasks[i].st = "aborted" => tasks'[i].st = "aborted"
       /\ (single.st = "ended" /\ upload.state = "rejected") => upload' = upload]_vars

\* C27 witness: the signal fired while two chunk requests were in flight, one of
\* them a retry, and both ended with the abort error.
C27_Witness ==
    /\ signal = "aborted"
    /\ \E i, j \in Indices :
          /\ i # j
          /\ tasks[i].st = "aborted" /\ tasks[i].err = UploadAbortedError("Upload aborted")
          /\ tasks[j].st = "aborted" /\ tasks[j].err = UploadAbortedError("Upload aborted")
          /\ tasks[j].calls = 2
    /\ upload = Rejected(UploadAbortedError("Upload aborted"))

\* C28: every transport call that ends (load with any status and any response
\* body, network error, abort) settles its attempt, as a success, a transfer
\* error or the abort error: no ended call leaves its attempt pending.
C28_EndedCallSettlesAttempt ==
    /\ \A i \in Indices : tasks[i].st # "stuck"
    /\ single.st = "ended" => upload.state # "pending"

\* C30: after the upload promise has settled (resolved or rejected) the
\* caller's progress callback is never invoked again for that upload.
C30_NoProgressAfterSettled ==
    ~lateProgress

\* C31: in the multiple variant the response of a successful chunked upload
\* with at least one chunk is the parsed response of the successful request of
\* the chunk at the highest input position, whichever chunk completed last; it
\* is fixed as soon as that chunk has succeeded.
C31_ResponseOfHighestChunk ==
    (Chunked /\ variant = "multiple" /\ Indices # {}) =>
        LET last == Cardinality(Indices) - 1
        IN  /\ tasks[last].st = "done" =>
                  finalResult = ParsedResponse(last, tasks[last].calls)
            /\ upload.state = "resolved" =>
                  /\ upload.value = ParsedResponse(last, tasks[last].calls)
                  /\ tasks[last].calls = tasks[last].fails + 1

\* C31 witness: three chunks, two in flight at a time; the chunk at the highest
\* position succeeded at its first request, an earlier chunk only at its second,
\* and the upload resolved with the response of the highest chunk.
C31_Witness ==
    /\ Chunked /\ variant = "multiple"
    /\ Cardinality(Indices) = 3
    /\ maxParallel = 2
    /\ upload = Resolved(ParsedResponse(2, 1))
    /\ tasks[1].calls = 2

\* ------------------------------------------------------------ liveness ----
\* Chunked uploads under fair scheduling: every request in flight gets its load
\* or error event, every timer (retry delay, semaphore poll) fires. The caller is
\* free never to abort, and the transport free never to report progress.
MaxChunks == MaxFileSize

InitLive ==
    /\ Init
    /\ uploadType = variant

NextLive ==
    \/ uploadFile
    \/ Abort
    \/ \E i \in Indices : SemaphoreWait(i)
    \/ \E i \in Indices : Load(i)
    \/ \E i \in Indices : ErrorEvent(i)
    \/ \E i \in Indices : RetryDelay(i)
    \/ \E i \in Indices : Progress(i)

Fairness ==
    \A i \in 0..(MaxChunks - 1) :
        /\ WF_vars(i \in Indices /\ (Load(i) \/ ErrorEvent(i)))
        /\ WF_vars(i \in Indices /\ RetryDelay(i))
        /\ WF_vars(i \in Indices /\ SemaphoreWait(i))

SpecLive == InitLive /\ [][NextLive]_vars /\ Fairness

\* C26: with maxParallel >= 1, every started transport call ending and fair
\* scheduling, every chunk eventually obtains a permit and the upload eventually
\* settles.
C26_EventuallySettles ==
    /\ (upload.state = "pending") ~> (upload.state \in {"resolved", "rejected"})
    /\ \A i \in 0..(MaxChunks - 1) :
          (i \in Indices /\ tasks[i].st = "waiting") ~> ~(i \in Indices /\ tasks[i].st = "waiting")

\* -------------------------------------- two uploads on one instance ----
\* uploadFile is called twice on the same UploadChunkFile, call j with its own
\* callback j, the second call possibly while the first is still pending. Each
\* call has its own uploadProgress Map and totalChunks (locals of
\* multipartUpload); this.onProgressChange is a field of the instance. The
\* instance is configured so that every chunk is in flight from the start, and
\* every request succeeds.
InitConcurrent ==
    /\ Init
    /\ uploadType = variant
    /\ options = [chunkSize |-> 1, maxParallel |-> MaxOption]

\* uploadFile of call j: this.onProgressChange = onProgressChange;
\* this.onProgressChange?.(0); then multipartUpload sends every chunk
uploadFileJob(j) ==
    /\ jobs[j].st = "idle"
    /\ \E size \in 1..MaxFileSize :
        LET totalChunks == calculateMultipartDetails(size, chunkSize)
        IN  /\ totalChunks <= maxParallel
            /\ onProgressChange' = j
            /\ delivered' = delivered \cup {[job |-> j, callback |-> j, value |-> Zero]}
            /\ jobs' = [jobs EXCEPT ![j] = [st |-> "pending",
                                            uploadProgress |-> [i \in 0..(totalChunks - 1) |-> -1],
                                            ended |-> {}]]
    /\ UNCHANGED <<oneUpload, backend>>

\* a "progress" event of chunk i of call j: uploadPart's onProgressChange sets
\* the call's own Map and gives the overall value to this.onProgressChange
ProgressJob(j, i) ==
    /\ jobs[j].st = "pending"
    /\ i \in DOMAIN jobs[j].uploadProgress
    /\ i \notin jobs[j].ended
    /\ \E pct \in Percentages :
        /\ pct > jobs[j].uploadProgress[i]
        /\ jobs' = [jobs EXCEPT ![j].uploadProgress[i] = pct]
        /\ delivered' = delivered \cup
              {[job |-> j, callback |-> onProgressChange,
                value |-> overallProgress(jobs'[j].uploadProgress,
                                          Cardinality(DOMAIN jobs[j].uploadProgress))]}
    /\ UNCHANGED <<onProgressChange, oneUpload, backend>>

\* the "load" event (2xx) of chunk i of call j; the call resolves with its last chunk
LoadJob(j, i) ==
    /\ jobs[j].st = "pending"
    /\ i \in DOMAIN jobs[j].uploadProgress
    /\ i \notin jobs[j].ended
    /\ jobs' = [jobs EXCEPT ![j].ended = @ \cup {i},
                            ![j].st = IF jobs[j].ended \cup {i} = DOMAIN jobs[j].uploadProgress
                                      THEN "resolved" ELSE "pending"]
    /\ UNCHANGED <<onProgressChange, delivered, oneUpload, backend>>

NextConcurrent ==
    \/ \E j \in Jobs : uploadFileJob(j)
    \/ \E j \in Jobs, i \in 0..(MaxChunks - 1) : ProgressJob(j, i)
    \/ \E j \in Jobs, i \in 0..(MaxChunks - 1) : LoadJob(j, i)

SpecConcurrent == InitConcurrent /\ [][NextConcurrent]_vars

\* C29: when two uploads with different progress callbacks run concurrently on
\* the same instance, every progress value computed for one upload is given
\* only to that upload's own callback.
C29_ProgressToOwnCallback ==
    \A d \in delivered : d.callback = d.job

\* ------------------------------------------------- the example backend ----
\* UploadChunkController::uploadFile handles the chunk requests of one upload
\* (same fileName, currentChunk 0..totalChunk-1, each sent once), one PHP
\* process per request, in any order and interleaved at its file system calls.
\* file_put_contents creates the chunk file when it opens it and writes the
\* data afterwards. The block that combines the chunks is taken as one step.
Requests == DOMAIN handler

\* the client sends the totalChunk requests of an upload
SendChunks ==
    /\ totalChunk = 0
    /\ \E n \in 1..MaxChunks :
        /\ totalChunk' = n
        /\ handler' = [i \in 0..(n - 1) |-> "received"]
    /\ UNCHANGED <<tempDir, chunkFiles, finalFiles, oneUpload, concurrent>>

\* if (!is_dir($tempDir)) mkdir($tempDir, 0777, true)
Mkdir(i) ==
    /\ handler[i] = "received"
    /\ tempDir' = TRUE
    /\ handler' = [handler EXCEPT ![i] = "mkdir"]
    /\ UNCHANGED <<totalChunk, chunkFiles, finalFiles, oneUpload, concurrent>>

\* file_put_contents($chunkPath, ...) opens the file: its entry is in the
\* directory from now on; it fails when the directory has been removed
FilePutContentsOpen(i) ==
    /\ handler[i] = "mkdir"
    /\ IF tempDir
       THEN /\ chunkFiles' = [j \in DOMAIN chunkFiles \cup {i} |->
                                 IF j = i THEN "open" ELSE chunkFiles[j]]
            /\ handler' = [handler EXCEPT ![i] = "open"]
       ELSE /\ UNCHANGED chunkFiles
            /\ handler' = [handler EXCEPT ![i] = "saved"]
    /\ UNCHANGED <<totalChunk, tempDir, finalFiles, oneUpload, concurrent>>

\* file_put_contents writes the data and closes the file; the data is lost when
\* the file has been unlinked in between
FilePutContentsWrite(i) ==
    /\ handler[i] = "open"
    /\ chunkFiles' = IF i \in DOMAIN chunkFiles
                     THEN [chunkFiles EXCEPT ![i] = "stored"]
                     ELSE chunkFiles
    /\ handler' = [handler EXCEPT ![i] = "saved"]
    /\ UNCHANGED <<totalChunk, tempDir, finalFiles, oneUpload, concurrent>>

\* count(scandir($tempDir)) - 2 == $totalChunk
AllChunksUploaded(i) ==
    tempDir /\ Cardinality(DOMAIN chunkFiles) = totalChunk

\* the test whether all chunks are uploaded, and the response when they are not
Scandir(i) ==
    /\ handler[i] = "saved"
    /\ handler' = [handler EXCEPT ![i] = IF AllChunksUploaded(i) THEN "combine" ELSE "responded"]
    /\ UNCHANGED <<totalChunk, tempDir, chunkFiles, finalFiles, oneUpload, concurrent>>

\* fopen($finalPath, 'w'), the loop that copies and unlinks chunk 0..totalChunk-1,
\* rmdir($tempDir), UploadedFile::create: the final file gets the data of the
\* chunk files that are there and complete
CombineChunks(i) ==
    /\ handler[i] = "combine"
    /\ finalFiles' = Append(finalFiles,
                            {j \in DOMAIN chunkFiles : j < totalChunk /\ chunkFiles[j] = "stored"})
    /\ chunkFiles' = <<>>
    /\ tempDir' = FALSE
    /\ handler' = [handler EXCEPT ![i] = "responded"]
    /\ UNCHANGED <<totalChunk, oneUpload, concurrent>>

NextBackend ==
    \/ SendChunks
    \/ \E i \in Requests : Mkdir(i)
    \/ \E i \in Requests : FilePutContentsOpen(i)
    \/ \E i \in Requests : FilePutContentsWrite(i)
    \/ \E i \in Requests : Scandir(i)
    \/ \E i \in Requests : CombineChunks(i)

InitBackend ==
    /\ Init
    /\ variant = "multiple"
    /\ uploadType = variant
    /\ options = <<>>

SpecBackend == InitBackend /\ [][NextBackend]_vars

\* C32: when the chunk requests of one upload are handled in any order and
\* possibly concurrently, the final file is assembled exactly once, and only
\* after all totalChunk chunks have been stored.
C32_AssembledOnceAfterAllStored ==
    /\ Len(finalFiles) <= 1
    /\ \A k \in 1..Len(finalFiles) : finalFiles[k] = 0..(totalChunk - 1)
    /\ (totalChunk > 0 /\ \A i \in Requests : handler[i] = "responded") =>
          Len(finalFiles) = 1

====
